---- MODULE Spec2Model ----
(***************************************************************************)
(* Model of the two scripts of big_query_examples:                         *)
(*   data_prep.py  - main() and the Dataprep REST pipeline                 *)
(*   main.py       - the BigQuery ML script run under __main__             *)
(* Python values are modelled as strings; Python's None is the string      *)
(* "None".  The external services (credential files, environment, the      *)
(* Dataprep REST API, the BigQuery warehouse) are nondeterministic inputs.  *)
(***************************************************************************)
EXTENDS Integers, Sequences, FiniteSets, TLC

VARIABLES
  program,               \* which script runs as __main__
  pc,                    \* position of the running script
  BIG_QUERY_CLIENT,      \* the process-global client handle
  credentials_json,      \* state of authentication/credentials.json
  token_json,            \* state of authentication/dataprep_token.json
  HTTP_PROXY,            \* environment variable (None = unset)
  HTTPS_PROXY,           \* environment variable (None = unset)
  warehouse,             \* dataset name -> descriptor held by BigQuery
  dataset_creations,     \* number of datasets the warehouse really created
  invoked,               \* trace of function and warehouse calls
  http,                  \* trace of HTTP requests with their responses
  results,               \* outcome of each pipeline step of data_prep.main
  auth_token, flow_id, connection_id, dataset_id, wrangled_dataset_id,
  connection_details,    \* locals of data_prep.main / connect_bigquery_to_dataprep
  job_id, job_status,    \* locals of run_dataprep_job
  dataset,               \* the variable `dataset` of main.py's script
  ds_call,               \* last create_dataset call: what existed, what came back
  stdout,                \* terminal messages printed by the orchestrator
  exc                    \* exception that escaped the script (None = none)

vars == <<program, pc, BIG_QUERY_CLIENT, credentials_json, token_json,
          HTTP_PROXY, HTTPS_PROXY, warehouse, dataset_creations, invoked,
          http, results, auth_token, flow_id, connection_id, dataset_id,
          wrangled_dataset_id, connection_details, job_id, job_status,
          dataset, ds_call, stdout, exc>>

env == <<program, credentials_json, token_json, HTTP_PROXY, HTTPS_PROXY>>
dp_locals == <<auth_token, flow_id, connection_id, dataset_id,
               wrangled_dataset_id, connection_details>>
job_locals == <<job_id, job_status>>
wh_vars == <<warehouse, dataset_creations, dataset, ds_call>>

----------------------------------------------------------------------------
(* Python values *)

None == "None"

\* Python truthiness of a string-or-None value: `if x` / `not x`
Truthy(x) == x # None /\ x # ""

----------------------------------------------------------------------------
(* Program constants *)

PROJECT_ID == "intrepid-signal-310513"
DATASET_ID == "ecommerce"
TABLE_ID == "all_sessions_raw_dataprep"
DATA_SET_NAME == "bqml_lab"
DefaultExpirationDays == 59

----------------------------------------------------------------------------
(* Bounds and input sets *)

MaxPages == 2

Tokens == {"abc123"}
ProxyValues == {None, "", "http://proxy:8080"}
CredentialFiles == {"valid", "missing", "malformed"}

\* dataprep_token.json: absent, not JSON, a JSON array, or a JSON object
\* whose "dataprep_token" field is absent (None), empty or a token
TokenFiles ==
  {[kind |-> k, dataprep_token |-> None] : k \in {"missing", "malformed", "array"}}
  \cup {[kind |-> "object", dataprep_token |-> t] : t \in {None, ""} \cup Tokens}

StatusCodes == {200, 201, 401, 500}

FlowIds == {"flow-1", "flow-2"}
ConnectionIds == {"conn-1"}
ImportedIds == {"ds-1"}
WrangledIds == {"rec-1"}
JobIds == {"job-1"}
JobStatuses == {"InProgress"}

\* what requests.get / requests.post can produce: a network error, a
\* response whose body is not JSON, or a JSON body in which the field the
\* caller reads ("id" or "status") is absent (None), empty or a value
Responses(values) ==
  {[error |-> FALSE, status_code |-> s, json |-> TRUE, field |-> v] :
      s \in StatusCodes, v \in values \cup {None, ""}}
  \cup {[error |-> FALSE, status_code |-> s, json |-> FALSE, field |-> None] :
      s \in StatusCodes}
  \cup {[error |-> TRUE, status_code |-> 0, json |-> FALSE, field |-> None]}

NoResponse == [error |-> FALSE, status_code |-> 0, json |-> FALSE, field |-> None]

DatasetNames == {DATASET_ID, DATA_SET_NAME}
NoDataset == [dataset_id |-> None, location |-> None, expiration_days |-> 0]
ExistingDescriptors(n) ==
  {[dataset_id |-> n, location |-> "US", expiration_days |-> DefaultExpirationDays],
   [dataset_id |-> n, location |-> "EU", expiration_days |-> 0]}

Steps == {"authenticate", "probe", "dataset", "create_flow",
          "create_connection", "import", "recipe"}

NoDetails == [present |-> FALSE, flow_id |-> None, connection_id |-> None,
              dataset_id |-> None, wrangled_dataset_id |-> None]
NoCall == [fn |-> None, name |-> None, existed |-> NoDataset, created |-> FALSE,
           ret_kind |-> "None", ret_dataset |-> NoDataset]

----------------------------------------------------------------------------
(* Trace records *)

Ev(op, client) == [op |-> op, client |-> client]

Req(op, tok, px, ids, resp, ret) ==
  [op |-> op, auth_token |-> tok, proxies |-> px, flow |-> ids.flow,
   connection |-> ids.connection, importedDataset |-> ids.importedDataset,
   wrangledDataset |-> ids.wrangledDataset, job |-> ids.job,
   response |-> resp, ret |-> ret]

NoIds == [flow |-> None, connection |-> None, importedDataset |-> None,
          wrangledDataset |-> None, job |-> None]

Returned(v) == [exc |-> None, ret |-> v]
Raised(e) == [exc |-> e, ret |-> None]

----------------------------------------------------------------------------
(* data_prep.py: pure helpers *)

\* get_token(): FileNotFoundError and JSONDecodeError are caught and give
\* None; the ValueError raised for an absent/empty field and the
\* AttributeError of list.get are not in the except clause
get_token(f) ==
  IF f.kind \in {"missing", "malformed"} THEN Returned(None)
  ELSE IF f.kind = "array" THEN Raised("AttributeError")
  ELSE IF ~Truthy(f.dataprep_token) THEN Raised("ValueError")
  ELSE Returned(f.dataprep_token)

NoProxies == [is_none |-> TRUE, http |-> None, https |-> None]

\* get_proxies() with `and` in place of `or` on line 79
get_proxies_both(http_proxy, https_proxy) ==
  IF Truthy(http_proxy) /\ Truthy(https_proxy)
  THEN [is_none |-> FALSE, http |-> http_proxy, https |-> https_proxy]
  ELSE NoProxies

get_proxies(http_proxy, https_proxy) ==
  IF Truthy(http_proxy) \/ Truthy(https_proxy)
  THEN [is_none |-> FALSE, http |-> http_proxy, https |-> https_proxy]
  ELSE NoProxies

\* authenticate_with_gcp() of data_prep.py: every exception is caught
dp_authenticate_with_gcp(client, cred) ==
  IF cred = "valid" THEN [client |-> "client", ret |-> TRUE]
  ELSE [client |-> client, ret |-> FALSE]

\* the success test and id extraction of the REST wrappers
\* create_flow() accepting any 2xx status on line 194
create_flow_any2xx(resp) ==
  IF resp.error THEN Raised("ConnectionError")
  ELSE IF resp.status_code >= 200 /\ resp.status_code < 300
       THEN IF resp.json THEN Returned(resp.field) ELSE Raised("JSONDecodeError")
       ELSE Returned(None)

create_flow(resp) ==
  IF resp.error THEN Raised("ConnectionError")
  ELSE IF resp.status_code = 201
       THEN IF resp.json THEN Returned(resp.field) ELSE Raised("JSONDecodeError")
       ELSE Returned(None)

create_bigquery_connection(resp) ==
  IF resp.error THEN Raised("ConnectionError")
  ELSE IF resp.status_code = 201
       THEN IF resp.json THEN Returned(resp.field) ELSE Raised("JSONDecodeError")
       ELSE Returned(None)

import_bigquery_dataset(resp) ==
  IF resp.error THEN Raised("ConnectionError")
  ELSE IF resp.status_code = 201
       THEN IF resp.json THEN Returned(resp.field) ELSE Raised("JSONDecodeError")
       ELSE Returned(None)

create_wrangled_dataset(resp) ==
  IF resp.error THEN Raised("ConnectionError")
  ELSE IF resp.status_code = 201
       THEN IF resp.json THEN Returned(resp.field) ELSE Raised("JSONDecodeError")
       ELSE Returned(None)

check_job_status(resp) ==
  IF resp.error THEN Raised("ConnectionError")
  ELSE IF resp.status_code = 200
       THEN IF resp.json THEN Returned(resp.field) ELSE Raised("JSONDecodeError")
       ELSE Returned(None)

\* test_dataprep_connection(): t is the outcome of its get_token() call
test_dataprep_connection(t, resp) ==
  IF t.exc # None THEN [exc |-> t.exc, ret |-> FALSE]
  ELSE IF ~Truthy(t.ret) THEN [exc |-> None, ret |-> FALSE]
  ELSE IF resp.error THEN [exc |-> "ConnectionError", ret |-> FALSE]
  ELSE [exc |-> None, ret |-> (resp.status_code = 200)]

StepOutcome(r, ok) == IF r.exc # None THEN "raised" ELSE IF ok THEN "ok" ELSE "fail"

----------------------------------------------------------------------------
(* Initial state: the module globals before __main__ runs *)

Init ==
  /\ program \in {"data_prep", "main"}
  /\ pc = IF program = "data_prep" THEN "main" ELSE "m_authenticate"
  /\ BIG_QUERY_CLIENT = None
  /\ credentials_json \in CredentialFiles
  /\ token_json \in TokenFiles
  /\ HTTP_PROXY \in ProxyValues
  /\ HTTPS_PROXY \in ProxyValues
  /\ warehouse \in [DatasetNames -> {NoDataset}
                      \cup UNION {ExistingDescriptors(n) : n \in DatasetNames}]
  /\ \A n \in DatasetNames : warehouse[n].dataset_id \in {None, n}
  \* each script only ever names its own dataset, and main.py reads neither
  \* the token file nor the proxy variables
  /\ program = "data_prep" => warehouse[DATA_SET_NAME] = NoDataset
  /\ program = "main" =>
        /\ warehouse[DATASET_ID] = NoDataset
        /\ token_json.kind = "missing"
        /\ HTTP_PROXY = None /\ HTTPS_PROXY = None
  /\ dataset_creations = 0
  /\ invoked = <<>>
  /\ http = <<>>
  /\ results = [s \in Steps |-> "none"]
  /\ auth_token = None
  /\ flow_id = None
  /\ connection_id = None
  /\ dataset_id = None
  /\ wrangled_dataset_id = None
  /\ connection_details = NoDetails
  /\ job_id = None
  /\ job_status = None
  /\ dataset = NoDataset
  /\ ds_call = NoCall
  /\ stdout = <<>>
  /\ exc = None

----------------------------------------------------------------------------
(* data_prep.py: control flow of main() and connect_bigquery_to_dataprep() *)

\* main() line 24: the result of authenticate_with_gcp() is not looked at
MainAfterAuthenticate(ok) == "step1"

\* main() lines 28-30
MainAfterProbe(ok) == IF ~ok THEN "exit" ELSE "step2"

\* main() lines 34-36
MainAfterDataset(ok) == IF ~ok THEN "exit" ELSE "step3"

\* lines 158-159 without the `if not flow_id` test
ConnectAfterFlow_unchecked(id) == "create_bigquery_connection"

\* connect_bigquery_to_dataprep() lines 158-159
ConnectAfterFlow(id) == IF ~Truthy(id) THEN "return_none" ELSE "create_bigquery_connection"

\* connect_bigquery_to_dataprep() lines 163-164
ConnectAfterConnection(id) == IF ~Truthy(id) THEN "return_none" ELSE "import_bigquery_dataset"

\* connect_bigquery_to_dataprep() lines 168-169
ConnectAfterImport(id) == IF ~Truthy(id) THEN "return_none" ELSE "create_wrangled_dataset"

\* connect_bigquery_to_dataprep() lines 174-179: the record it returns
ConnectionDetails(f, c, d, w) ==
  [present |-> TRUE, flow_id |-> f, connection_id |-> c, dataset_id |-> d,
   wrangled_dataset_id |-> w]

\* main() lines 42-46: a non-empty dict is truthy whatever its values are
MainAfterConnect(details) == IF ~details.present THEN "exit" ELSE "success"

\* the request bodies built by the REST wrappers
\* the import payload with flow and connection ids interchanged
ImportPayload_swapped(f, c) == [NoIds EXCEPT !.flow = c, !.connection = f]
ImportPayload(f, c) == [NoIds EXCEPT !.flow = f, !.connection = c]
\* the recipe payload with the imported-dataset id pasted into the flow entry
WrangledPayload_pasted(f, d) == [NoIds EXCEPT !.flow = d, !.importedDataset = d]
WrangledPayload(f, d) == [NoIds EXCEPT !.flow = f, !.importedDataset = d]
JobPayload(w) == [NoIds EXCEPT !.wrangledDataset = w]
StatusUrl(j) == [NoIds EXCEPT !.job = j]

MsgProbeFailed == "Failed to connect to Cloud Dataprep API. Exiting."
MsgDatasetFailed == "Failed to create BigQuery dataset. Exiting."
MsgConnectFailed == "Failed to connect BigQuery data to Cloud Dataprep. Exiting."
MsgSuccess == "All steps completed successfully!"

\* how main() ends after a step: an escaping exception, an early return
\* with its message, the final message, or the next step
Finish(e, next, failMsg) ==
  /\ exc' = e
  /\ pc' = IF e # None THEN "raised"
           ELSE IF next \in {"exit", "return_none", "success"} THEN "returned"
           ELSE next
  /\ stdout' = IF e # None THEN stdout
               ELSE IF next \in {"exit", "return_none"} THEN Append(stdout, failMsg)
               ELSE IF next = "success" THEN Append(stdout, MsgSuccess)
               ELSE stdout

----------------------------------------------------------------------------
(* data_prep.py: the steps of main() *)

\* main() lines 21-24
Authenticate ==
  /\ pc = "main"
  /\ LET a == dp_authenticate_with_gcp(BIG_QUERY_CLIENT, credentials_json) IN
       /\ BIG_QUERY_CLIENT' = a.client
       /\ invoked' = Append(invoked, Ev("authenticate_with_gcp", BIG_QUERY_CLIENT))
       /\ results' = [results EXCEPT !["authenticate"] = IF a.ret THEN "ok" ELSE "fail"]
       /\ Finish(None, MainAfterAuthenticate(a.ret), "")
  /\ UNCHANGED <<env, wh_vars, http, dp_locals, job_locals>>

\* main() lines 26-30 with test_dataprep_connection()
Step1 ==
  /\ pc = "step1"
  /\ \E resp \in (IF get_token(token_json) = Returned(None) \/ get_token(token_json).exc # None
                  THEN {NoResponse} ELSE Responses({})) :
       LET t == get_token(token_json)
           px == get_proxies(HTTP_PROXY, HTTPS_PROXY)
           r == test_dataprep_connection(t, resp)
           issued == t.exc = None /\ Truthy(t.ret)
       IN
         /\ invoked' = invoked \o <<Ev("test_dataprep_connection", BIG_QUERY_CLIENT),
                                    Ev("get_token", BIG_QUERY_CLIENT)>>
                               \o (IF issued THEN <<Ev("get_proxies", BIG_QUERY_CLIENT)>>
                                   ELSE <<>>)
         /\ http' = IF issued
                    THEN Append(http, Req("test_dataprep_connection", t.ret, px,
                                          NoIds, resp,
                                          IF r.exc = None /\ r.ret THEN "True" ELSE None))
                    ELSE http
         /\ results' = [results EXCEPT !["probe"] = StepOutcome(r, r.ret)]
         /\ Finish(r.exc, MainAfterProbe(r.ret), MsgProbeFailed)
  /\ UNCHANGED <<env, BIG_QUERY_CLIENT, wh_vars, dp_locals, job_locals>>

\* main() lines 32-36 with create_bigquery_dataset(): everything runs
\* inside its try, so it returns True or False
Step2 ==
  /\ pc = "step2"
  /\ \E lookupErr \in BOOLEAN, createErr \in BOOLEAN, queryErr \in BOOLEAN :
       LET reauth == BIG_QUERY_CLIENT = None
           a == IF reauth
                THEN dp_authenticate_with_gcp(BIG_QUERY_CLIENT, credentials_json)
                ELSE [client |-> BIG_QUERY_CLIENT, ret |-> TRUE]
           client == a.client
           existing == warehouse[DATASET_ID]
           exists == existing # NoDataset
           found == client # None /\ exists /\ ~lookupErr
           doCreate == client # None /\ ~found
           createOk == doCreate /\ ~createErr
           wanted == [dataset_id |-> DATASET_ID, location |-> "US", expiration_days |-> 0]
           queried == client # None /\ (found \/ createOk)
           ok == queried /\ ~queryErr
       IN
         /\ BIG_QUERY_CLIENT' = client
         /\ warehouse' = IF createOk /\ ~exists
                         THEN [warehouse EXCEPT ![DATASET_ID] = wanted]
                         ELSE warehouse
         /\ dataset_creations' = IF createOk /\ ~exists
                                 THEN dataset_creations + 1 ELSE dataset_creations
         /\ ds_call' = IF client # None
                       THEN [fn |-> "create_bigquery_dataset", name |-> DATASET_ID,
                             existed |-> existing, created |-> createOk /\ ~exists,
                             ret_kind |-> "bool", ret_dataset |-> NoDataset]
                       ELSE ds_call
         /\ invoked' = invoked
               \o <<Ev("create_bigquery_dataset", BIG_QUERY_CLIENT)>>
               \o (IF reauth THEN <<Ev("authenticate_with_gcp", BIG_QUERY_CLIENT)>> ELSE <<>>)
               \o (IF client # None THEN <<Ev("bq.get_dataset", client)>> ELSE <<>>)
               \o (IF doCreate THEN <<Ev("bq.create_dataset", client)>> ELSE <<>>)
               \o (IF queried THEN <<Ev("bq.query", client)>> ELSE <<>>)
         /\ results' = [results EXCEPT !["dataset"] = IF ok THEN "ok" ELSE "fail"]
         /\ Finish(None, MainAfterDataset(ok), MsgDatasetFailed)
  /\ UNCHANGED <<env, dataset, http, dp_locals, job_locals>>

\* main() lines 39-41 and connect_bigquery_to_dataprep() line 154
Step3 ==
  /\ pc = "step3"
  /\ LET t == get_token(token_json) IN
       /\ auth_token' = t.ret
       /\ invoked' = invoked \o <<Ev("get_token", BIG_QUERY_CLIENT)>>
                             \o (IF t.exc = None
                                 THEN <<Ev("connect_bigquery_to_dataprep", BIG_QUERY_CLIENT),
                                        Ev("get_proxies", BIG_QUERY_CLIENT)>>
                                 ELSE <<>>)
       /\ Finish(t.exc, "create_flow", "")
  /\ UNCHANGED <<env, BIG_QUERY_CLIENT, wh_vars, http, results, flow_id,
                 connection_id, dataset_id, wrangled_dataset_id,
                 connection_details, job_locals>>

\* connect_bigquery_to_dataprep() lines 156-159 (and main() lines 42-44
\* when it returns None)
CreateFlow ==
  /\ pc = "create_flow"
  /\ \E resp \in Responses(FlowIds) :
       LET r == create_flow(resp)
           px == get_proxies(HTTP_PROXY, HTTPS_PROXY)
       IN
         /\ flow_id' = r.ret
         /\ invoked' = Append(invoked, Ev("create_flow", BIG_QUERY_CLIENT))
         /\ http' = Append(http, Req("create_flow", auth_token, px, NoIds, resp, r.ret))
         /\ results' = [results EXCEPT !["create_flow"] = StepOutcome(r, Truthy(r.ret))]
         /\ Finish(r.exc, ConnectAfterFlow(r.ret), MsgConnectFailed)
  /\ UNCHANGED <<env, BIG_QUERY_CLIENT, wh_vars, auth_token, connection_id,
                 dataset_id, wrangled_dataset_id, connection_details, job_locals>>

\* connect_bigquery_to_dataprep() lines 161-164
CreateConnection ==
  /\ pc = "create_bigquery_connection"
  /\ \E resp \in Responses(ConnectionIds) :
       LET r == create_bigquery_connection(resp)
           px == get_proxies(HTTP_PROXY, HTTPS_PROXY)
       IN
         /\ connection_id' = r.ret
         /\ invoked' = Append(invoked, Ev("create_bigquery_connection", BIG_QUERY_CLIENT))
         /\ http' = Append(http, Req("create_bigquery_connection", auth_token, px,
                                     NoIds, resp, r.ret))
         /\ results' = [results EXCEPT !["create_connection"] = StepOutcome(r, Truthy(r.ret))]
         /\ Finish(r.exc, ConnectAfterConnection(r.ret), MsgConnectFailed)
  /\ UNCHANGED <<env, BIG_QUERY_CLIENT, wh_vars, auth_token, flow_id,
                 dataset_id, wrangled_dataset_id, connection_details, job_locals>>

\* connect_bigquery_to_dataprep() lines 166-169
ImportDataset ==
  /\ pc = "import_bigquery_dataset"
  /\ \E resp \in Responses(ImportedIds) :
       LET r == import_bigquery_dataset(resp)
           px == get_proxies(HTTP_PROXY, HTTPS_PROXY)
       IN
         /\ dataset_id' = r.ret
         /\ invoked' = Append(invoked, Ev("import_bigquery_dataset", BIG_QUERY_CLIENT))
         /\ http' = Append(http, Req("import_bigquery_dataset", auth_token, px,
                                     ImportPayload(flow_id, connection_id), resp, r.ret))
         /\ results' = [results EXCEPT !["import"] = StepOutcome(r, Truthy(r.ret))]
         /\ Finish(r.exc, ConnectAfterImport(r.ret), MsgConnectFailed)
  /\ UNCHANGED <<env, BIG_QUERY_CLIENT, wh_vars, auth_token, flow_id,
                 connection_id, wrangled_dataset_id, connection_details, job_locals>>

\* connect_bigquery_to_dataprep() lines 171-179 and main() lines 42-46
CreateWrangled ==
  /\ pc = "create_wrangled_dataset"
  /\ \E resp \in Responses(WrangledIds) :
       LET r == create_wrangled_dataset(resp)
           px == get_proxies(HTTP_PROXY, HTTPS_PROXY)
           details == IF r.exc # None THEN NoDetails
                      ELSE ConnectionDetails(flow_id, connection_id, dataset_id, r.ret)
       IN
         /\ wrangled_dataset_id' = r.ret
         /\ connection_details' = details
         /\ invoked' = Append(invoked, Ev("create_wrangled_dataset", BIG_QUERY_CLIENT))
         /\ http' = Append(http, Req("create_wrangled_dataset", auth_token, px,
                                     WrangledPayload(flow_id, dataset_id), resp, r.ret))
         /\ results' = [results EXCEPT !["recipe"] = StepOutcome(r, Truthy(r.ret))]
         /\ Finish(r.exc, MainAfterConnect(details), MsgConnectFailed)
  /\ UNCHANGED <<env, BIG_QUERY_CLIENT, wh_vars, auth_token, flow_id,
                 connection_id, dataset_id, job_locals>>

----------------------------------------------------------------------------
(* data_prep.py: run_dataprep_job(), called after the pipeline of main() *)

NoJob == [exc |-> None, ret |-> None, tok |-> None, posted |-> FALSE,
          polled |-> FALSE, job |-> None, status |-> None]

\* run_dataprep_job(a, w): f is the token file, resp the answer to the
\* launch request, poll the answer to the status request
run_dataprep_job(a, w, f, resp, poll) ==
  LET t == IF ~Truthy(a) THEN get_token(f) ELSE Returned(a) IN
    IF t.exc # None THEN [NoJob EXCEPT !.exc = t.exc]
    ELSE IF ~Truthy(t.ret) THEN NoJob
    ELSE IF ~Truthy(w) THEN [NoJob EXCEPT !.tok = t.ret]
    ELSE IF resp.error
         THEN [NoJob EXCEPT !.tok = t.ret, !.posted = TRUE, !.exc = "ConnectionError"]
    ELSE IF resp.status_code = 201
         THEN IF ~resp.json
              THEN [NoJob EXCEPT !.tok = t.ret, !.posted = TRUE, !.exc = "JSONDecodeError"]
              ELSE LET s == check_job_status(poll) IN
                     [exc |-> s.exc,
                      ret |-> IF s.exc = None THEN resp.field ELSE None,
                      tok |-> t.ret, posted |-> TRUE, polled |-> TRUE,
                      job |-> resp.field, status |-> s.ret]
    ELSE [NoJob EXCEPT !.tok = t.ret, !.posted = TRUE]

\* the answers the service can give: none when no request goes out
JobResponses(a, w, f) ==
  IF run_dataprep_job(a, w, f, [NoResponse EXCEPT !.status_code = 401], NoResponse).posted
  THEN Responses(JobIds) ELSE {NoResponse}

PollResponses(resp) ==
  IF ~resp.error /\ resp.json /\ resp.status_code = 201
  THEN Responses(JobStatuses) ELSE {NoResponse}

\* the job step that follows a pipeline run: each argument is either the
\* pipeline's value or left at its default None; f is the token file as
\* get_token() finds it when the step runs
RunDataprepJob ==
  /\ pc = "returned"
  /\ program = "data_prep"
  /\ connection_details.present
  /\ \E a \in {None, auth_token}, w \in {None, connection_details.wrangled_dataset_id} :
     \E f \in (IF Truthy(a) THEN {token_json} ELSE TokenFiles) :
     \E resp \in JobResponses(a, w, f) :
     \E poll \in PollResponses(resp) :
       LET px == get_proxies(HTTP_PROXY, HTTPS_PROXY)
           r == run_dataprep_job(a, w, f, resp, poll)
       IN
         /\ token_json' = f
         /\ job_id' = r.ret
         /\ job_status' = r.status
         /\ invoked' = invoked
               \o <<Ev("run_dataprep_job", BIG_QUERY_CLIENT)>>
               \o (IF ~Truthy(a) THEN <<Ev("get_token", BIG_QUERY_CLIENT)>> ELSE <<>>)
               \o (IF Truthy(r.tok) THEN <<Ev("get_proxies", BIG_QUERY_CLIENT)>> ELSE <<>>)
               \o (IF r.polled THEN <<Ev("check_job_status", BIG_QUERY_CLIENT)>> ELSE <<>>)
         /\ http' = http
               \o (IF r.posted
                   THEN <<Req("run_dataprep_job", r.tok, px, JobPayload(w), resp, r.job)>>
                   ELSE <<>>)
               \o (IF r.polled
                   THEN <<Req("check_job_status", r.tok, px, StatusUrl(r.job), poll,
                              r.status)>>
                   ELSE <<>>)
         /\ exc' = r.exc
         /\ pc' = IF r.exc # None THEN "job_raised" ELSE "job_returned"
  /\ UNCHANGED <<program, credentials_json, HTTP_PROXY, HTTPS_PROXY,
                 BIG_QUERY_CLIENT, wh_vars, results, dp_locals, stdout>>

----------------------------------------------------------------------------
(* main.py: the script under __main__ *)

\* authenticate_with_gcp() of main.py wrapped in data_prep.py's try/except:
\* a bad key file is swallowed and the script goes on
main_authenticate_with_gcp_swallowed(client, cred) ==
  IF cred = "valid" THEN [exc |-> None, client |-> "client"]
  ELSE [exc |-> None, client |-> client]

\* authenticate_with_gcp() of main.py: no try, a bad key file raises
main_authenticate_with_gcp(client, cred) ==
  IF cred = "valid" THEN [exc |-> None, client |-> "client"]
  ELSE [exc |-> IF cred = "missing" THEN "FileNotFoundError" ELSE "ValueError",
        client |-> client]

\* get_dataset(): NotFound gives None, the descriptor otherwise
main_get_dataset(current) == current

\* create_dataset(name) against a warehouse that holds `current` under
\* that name: exists_ok=True makes the client hand back the existing
\* dataset; the function itself has no return statement
main_create_dataset(current, name) ==
  LET wanted == [dataset_id |-> name, location |-> "US",
                 expiration_days |-> DefaultExpirationDays]
      exists == current # NoDataset
  IN [stored |-> IF exists THEN current ELSE wanted,
      created |-> ~exists,
      ret_kind |-> "None",
      ret_dataset |-> NoDataset]

SqlSteps == <<"m_create_model", "m_evaluate_model", "m_predict", "m_drop_model">>

AfterSql(p) ==
  IF p = "m_create_model" THEN "m_evaluate_model"
  ELSE IF p = "m_evaluate_model" THEN "m_predict"
  ELSE IF p = "m_predict" THEN "m_drop_model"
  ELSE "returned"

\* main.py line 89
M_Authenticate ==
  /\ pc = "m_authenticate"
  /\ LET a == main_authenticate_with_gcp(BIG_QUERY_CLIENT, credentials_json) IN
       /\ BIG_QUERY_CLIENT' = a.client
       /\ invoked' = Append(invoked, Ev("authenticate_with_gcp", BIG_QUERY_CLIENT))
       /\ exc' = a.exc
       /\ pc' = IF a.exc # None THEN "raised" ELSE "m_get_dataset"
  /\ UNCHANGED <<env, wh_vars, http, results, dp_locals, job_locals, stdout>>

\* main.py line 91: a lookup error other than NotFound escapes
M_GetDataset ==
  /\ pc = "m_get_dataset"
  /\ \E lookupErr \in BOOLEAN :
       /\ dataset' = IF lookupErr THEN dataset
                     ELSE main_get_dataset(warehouse[DATA_SET_NAME])
       /\ exc' = IF lookupErr THEN "GoogleAPICallError" ELSE None
       /\ pc' = IF lookupErr THEN "raised" ELSE "m_ensure_dataset"
  /\ invoked' = Append(invoked, Ev("bq.get_dataset", BIG_QUERY_CLIENT))
  /\ UNCHANGED <<env, BIG_QUERY_CLIENT, warehouse, dataset_creations, ds_call,
                 http, results, dp_locals, job_locals, stdout>>

\* main.py lines 93-95: `other` is what another client of the warehouse
\* stored under the name since the lookup (nothing, or a dataset)
M_EnsureDataset ==
  /\ pc = "m_ensure_dataset"
  /\ IF dataset # NoDataset
     THEN /\ pc' = "m_list_datasets"
          /\ UNCHANGED <<wh_vars, invoked, exc>>
     ELSE \E other \in {NoDataset} \cup ExistingDescriptors(DATA_SET_NAME),
             createErr \in BOOLEAN :
            LET current == IF warehouse[DATA_SET_NAME] = NoDataset THEN other
                           ELSE warehouse[DATA_SET_NAME]
                c == main_create_dataset(current, DATA_SET_NAME)
            IN
              /\ invoked' = invoked \o <<Ev("create_dataset", BIG_QUERY_CLIENT),
                                         Ev("bq.create_dataset", BIG_QUERY_CLIENT)>>
              /\ warehouse' = [warehouse EXCEPT ![DATA_SET_NAME] =
                                 IF createErr THEN current ELSE c.stored]
              /\ dataset_creations' = IF ~createErr /\ c.created
                                      THEN dataset_creations + 1 ELSE dataset_creations
              /\ ds_call' = IF createErr THEN ds_call
                            ELSE [fn |-> "create_dataset", name |-> DATA_SET_NAME,
                                  existed |-> current, created |-> c.created,
                                  ret_kind |-> c.ret_kind, ret_dataset |-> c.ret_dataset]
              /\ dataset' = IF createErr THEN dataset ELSE c.ret_dataset
              /\ exc' = IF createErr THEN "GoogleAPICallError" ELSE None
              /\ pc' = IF createErr THEN "raised" ELSE "m_list_datasets"
  /\ UNCHANGED <<env, BIG_QUERY_CLIENT, http, results, dp_locals, job_locals, stdout>>

\* main.py line 96 with list_datasets(): one call before the loop, then
\* one call per page until the continuation token is empty
M_ListDatasets ==
  /\ pc = "m_list_datasets"
  /\ \E pages \in 1..MaxPages, listErr \in BOOLEAN :
       /\ invoked' = invoked
             \o <<Ev("list_datasets", BIG_QUERY_CLIENT)>>
             \o [i \in 1..(1 + IF listErr THEN 0 ELSE pages) |->
                   Ev("bq.list_datasets", BIG_QUERY_CLIENT)]
       /\ exc' = IF listErr THEN "GoogleAPICallError" ELSE None
       /\ pc' = IF listErr THEN "raised" ELSE SqlSteps[1]
  /\ UNCHANGED <<env, BIG_QUERY_CLIENT, wh_vars, http, results, dp_locals,
                 job_locals, stdout>>

\* main.py lines 119, 172, 202, 214 with run_sql_query(): a failed job
\* raises out of query_job.result()
M_RunSql ==
  /\ pc \in {SqlSteps[i] : i \in DOMAIN SqlSteps}
  /\ \E queryErr \in BOOLEAN :
       /\ exc' = IF queryErr THEN "GoogleAPICallError" ELSE None
       /\ pc' = IF queryErr THEN "raised" ELSE AfterSql(pc)
  /\ invoked' = invoked \o <<Ev("run_sql_query", BIG_QUERY_CLIENT),
                             Ev("bq.query", BIG_QUERY_CLIENT)>>
  /\ UNCHANGED <<env, BIG_QUERY_CLIENT, wh_vars, http, results, dp_locals,
                 job_locals, stdout>>

----------------------------------------------------------------------------

Next ==
  \/ Authenticate
  \/ Step1
  \/ Step2
  \/ Step3
  \/ CreateFlow
  \/ CreateConnection
  \/ ImportDataset
  \/ CreateWrangled
  \/ RunDataprepJob
  \/ M_Authenticate
  \/ M_GetDataset
  \/ M_EnsureDataset
  \/ M_ListDatasets
  \/ M_RunSql

Spec == Init /\ [][Next]_vars

----------------------------------------------------------------------------
(* Properties *)

Invoked(op) == \E i \in DOMAIN invoked : invoked[i].op = op
Calls(op) == Cardinality({i \in DOMAIN invoked : invoked[i].op = op})
Requests(op) == {i \in DOMAIN http : http[i].op = op}

\* the request of `op` came back without a usable id
Failed(op) == \E i \in Requests(op) : ~Truthy(http[i].ret)

\* the documented success code of each REST operation
SuccessCode(op) ==
  IF op \in {"test_dataprep_connection", "check_job_status"} THEN 200 ELSE 201

\* C1: in connect_bigquery_to_dataprep a failed create_flow means that
\* create_bigquery_connection, import_bigquery_dataset and
\* create_wrangled_dataset are never invoked and None is returned; a failed
\* create_bigquery_connection prevents the import and the recipe; a failed
\* import prevents the recipe.
C1_ShortCircuit ==
  /\ Failed("create_flow") =>
       /\ ~Invoked("create_bigquery_connection")
       /\ ~Invoked("import_bigquery_dataset")
       /\ ~Invoked("create_wrangled_dataset")
       /\ connection_details = NoDetails
  /\ Failed("create_bigquery_connection") =>
       /\ ~Invoked("import_bigquery_dataset")
       /\ ~Invoked("create_wrangled_dataset")
       /\ connection_details = NoDetails
  /\ Failed("import_bigquery_dataset") =>
       /\ ~Invoked("create_wrangled_dataset")
       /\ connection_details = NoDetails

\* create_flow answered 201 with an empty id and the run has ended
C1_Witness ==
  /\ pc = "returned"
  /\ \E i \in Requests("create_flow") :
       /\ http[i].response.status_code = 201
       /\ http[i].response.json
       /\ http[i].ret = ""
  /\ MsgConnectFailed = stdout[Len(stdout)]

StepOrder == <<"authenticate", "probe", "dataset", "create_flow",
               "create_connection", "import", "recipe">>

\* C2: the steps of data_prep.main run in the order authenticate, probe,
\* dataset, flow, connection, import, recipe, and a failure of any step
\* means that no later step is run and that a failure message is printed
\* instead of 'All steps completed successfully!'.
C2_EveryFailureStops ==
  \A i \in DOMAIN StepOrder :
    /\ results[StepOrder[i]] # "none" =>
         \A j \in 1..(i - 1) : results[StepOrder[j]] # "none"
    /\ results[StepOrder[i]] = "fail" =>
         /\ \A j \in (i + 1)..Len(StepOrder) : results[StepOrder[j]] = "none"
         /\ \A k \in DOMAIN stdout : stdout[k] # MsgSuccess
         /\ pc \in {"returned", "job_returned", "job_raised"} =>
              \E k \in DOMAIN stdout :
                stdout[k] \in {MsgProbeFailed, MsgDatasetFailed, MsgConnectFailed}

\* the creation call that produces the id of each request field
Producer ==
  [flow |-> "create_flow", connection |-> "create_bigquery_connection",
   importedDataset |-> "import_bigquery_dataset",
   wrangledDataset |-> "create_wrangled_dataset", job |-> "run_dataprep_job"]

\* the predecessor ids each request carries
Needs(op) ==
  IF op = "import_bigquery_dataset" THEN {"flow", "connection"}
  ELSE IF op = "create_wrangled_dataset" THEN {"flow", "importedDataset"}
  ELSE IF op = "run_dataprep_job" THEN {"wrangledDataset"}
  ELSE IF op = "check_job_status" THEN {"job"}
  ELSE {}

\* request i carries in field k an id that an earlier creation call
\* returned with the success code
FromCreation(i, k) ==
  /\ Truthy(http[i][k])
  /\ \E j \in 1..(i - 1) :
       /\ http[j].op = Producer[k]
       /\ http[j].response.status_code = 201
       /\ http[j].ret = http[i][k]

\* C3: every request that takes a predecessor id is issued only with ids
\* returned by a successful creation call (success code, non-empty id);
\* the pipeline never proceeds past a missing id.
C3_OnlyCreatedIds ==
  \A i \in DOMAIN http :
    /\ \A k \in Needs(http[i].op) : FromCreation(i, k)
    /\ http[i].op = "create_bigquery_connection" =>
         \E j \in 1..(i - 1) :
           /\ http[j].op = "create_flow"
           /\ http[j].response.status_code = 201
           /\ Truthy(http[j].ret)

\* C4: for every Dataprep REST operation, a response whose status code is
\* not the operation's documented success code gives the failure outcome
\* and nothing is extracted from its body.
C4_NonSuccessExtractsNothing ==
  /\ \A i \in DOMAIN http :
       (~http[i].response.error
          /\ http[i].response.status_code # SuccessCode(http[i].op))
       => http[i].ret = None
  /\ \A i \in Requests("create_flow") :
       (i = Len(http) /\ ~http[i].response.error
          /\ http[i].response.status_code # 201)
       => (flow_id = None /\ exc = None /\ pc = "returned")

\* create_flow was answered 200 with an id in the body
C4_Witness ==
  \E i \in Requests("create_flow") :
    /\ http[i].response.status_code = 200
    /\ http[i].response.json
    /\ http[i].response.field \in FlowIds
    /\ http[i].ret = None

\* the token file is valid JSON without a usable dataprep_token field
TokenFieldMissing ==
  token_json.kind = "object" /\ token_json.dataprep_token \in {None, ""}

\* C5: for a token file that is valid JSON but whose dataprep_token field
\* is absent or empty, get_token fails the same way as for a missing or
\* malformed file: it returns no token (None) and raises nothing.
C5_MissingFieldGivesNone ==
  (TokenFieldMissing /\ Invoked("get_token")) =>
     /\ get_token(token_json)
          = get_token([kind |-> "missing", dataprep_token |-> None])
     /\ exc = None

\* C6: every error raised inside a step of data_prep.main is caught at its
\* call site and turned into a sentinel; no exception escapes main.
C6_NoExceptionEscapesMain ==
  program = "data_prep" => (pc # "raised" /\ (pc # "job_raised" => exc = None))

\* a proxy variable counts as set when it holds a non-empty value
IsSet(v) == Truthy(v)

\* C7 as stated: no proxy when neither variable is set, a configuration
\* when at least one is set, and never a configuration holding an empty or
\* missing value for a variable that was not set.
C7_NoMissingProxyValue ==
  \A i \in DOMAIN http :
    LET p == http[i].proxies IN
      /\ (~IsSet(HTTP_PROXY) /\ ~IsSet(HTTPS_PROXY)) => p.is_none
      /\ (IsSet(HTTP_PROXY) \/ IsSet(HTTPS_PROXY)) => ~p.is_none
      /\ ~p.is_none =>
           /\ ~IsSet(HTTP_PROXY) => Truthy(p.http)
           /\ ~IsSet(HTTPS_PROXY) => Truthy(p.https)

\* C7 amended: no proxy when neither variable is set, and otherwise a
\* configuration with both entries, each holding its variable's value as
\* read from the environment (None for a variable that is not set).
C7_ProxiesAsRead ==
  \A i \in DOMAIN http :
    LET p == http[i].proxies IN
      /\ (~IsSet(HTTP_PROXY) /\ ~IsSet(HTTPS_PROXY)) => p.is_none
      /\ (IsSet(HTTP_PROXY) \/ IsSet(HTTPS_PROXY)) =>
           /\ ~p.is_none
           /\ p.http = HTTP_PROXY
           /\ p.https = HTTPS_PROXY

\* a request went out with only HTTPS_PROXY set
C7_Witness ==
  /\ HTTP_PROXY = None
  /\ HTTPS_PROXY = "http://proxy:8080"
  /\ \E i \in DOMAIN http :
       /\ ~http[i].proxies.is_none
       /\ http[i].proxies.http = None

\* the three creation calls answered 201 with flow-1, conn-1 and ds-1
C8_Scenario ==
  /\ \E i \in Requests("create_flow") :
       http[i].response = [error |-> FALSE, status_code |-> 201,
                           json |-> TRUE, field |-> "flow-1"]
  /\ \E i \in Requests("create_bigquery_connection") :
       http[i].response = [error |-> FALSE, status_code |-> 201,
                           json |-> TRUE, field |-> "conn-1"]
  /\ \E i \in Requests("import_bigquery_dataset") :
       http[i].response = [error |-> FALSE, status_code |-> 201,
                           json |-> TRUE, field |-> "ds-1"]

\* C8: when flow creation returns 201 'flow-1', connection creation 201
\* 'conn-1' and the import 201 'ds-1', connect_bigquery_to_dataprep returns
\* a record with exactly these flow_id, connection_id and dataset_id, and
\* each id sent in a later request is the one its creation call returned.
C8_IdsThreaded ==
  C8_Scenario =>
    /\ \A i \in Requests("import_bigquery_dataset") :
         http[i].flow = "flow-1" /\ http[i].connection = "conn-1"
    /\ \A i \in Requests("create_wrangled_dataset") :
         http[i].flow = "flow-1" /\ http[i].importedDataset = "ds-1"
    /\ connection_details.present =>
         /\ connection_details.flow_id = "flow-1"
         /\ connection_details.connection_id = "conn-1"
         /\ connection_details.dataset_id = "ds-1"

\* the scenario ran to the end and a record was returned
C8_Witness ==
  /\ C8_Scenario
  /\ pc = "returned"
  /\ connection_details.present
  /\ connection_details.wrangled_dataset_id = "rec-1"
  /\ Requests("create_wrangled_dataset") # {}

\* C9: for a dataset name that already exists, create_dataset performs no
\* duplicate creation and returns the existing dataset descriptor to its
\* caller.
C9_ReturnsExistingDataset ==
  (ds_call.fn # None /\ ds_call.existed # NoDataset) =>
     /\ ~ds_call.created
     /\ warehouse[ds_call.name] = ds_call.existed
     /\ ds_call.ret_kind = "Dataset"
     /\ ds_call.ret_dataset = ds_call.existed

PipelineFunctions ==
  {"authenticate_with_gcp", "test_dataprep_connection", "create_bigquery_dataset",
   "create_flow", "create_bigquery_connection", "import_bigquery_dataset",
   "create_wrangled_dataset"}

\* C10: in a run of data_prep.main each step (GCP authentication, probe,
\* dataset creation, flow, connection, import, recipe) is attempted at most
\* once, also after it has failed.
C10_NothingRetried ==
  program = "data_prep" => \A f \in PipelineFunctions : Calls(f) <= 1

IdFields == {"flow", "connection", "importedDataset", "wrangledDataset", "job"}

\* the ids of kind k that a creation call has returned
Created(k) ==
  {http[j].ret : j \in {x \in DOMAIN http : http[x].op = Producer[k] /\ Truthy(http[x].ret)}}

\* the calls that returned `id`, and the request entries that carry it
ProducersOf(id) == {j \in DOMAIN http : http[j].ret = id}
Uses(id) == {u \in (DOMAIN http) \X IdFields : http[u[1]][u[2]] = id}

\* C11 as stated: every created identifier has exactly one producing call
\* and is passed as an input id to at most one later call.
C11_AtMostOneConsumer ==
  \A k \in IdFields : \A id \in Created(k) :
    /\ Cardinality(ProducersOf(id)) = 1
    /\ Cardinality(Uses(id)) <= 1

\* C11 amended: every created identifier has exactly one producing call;
\* the flow id is passed to two later calls, the import and the recipe
\* creation; every other id is passed to at most one later call; an id is
\* only ever sent in the entry of its own kind, after it was produced.
C11_FlowIdUsedTwice ==
  \A k \in IdFields : \A id \in Created(k) :
    /\ Cardinality(ProducersOf(id)) = 1
    /\ Cardinality(Uses(id)) <= (IF k = "flow" THEN 2 ELSE 1)
    /\ \A u \in Uses(id) :
         /\ u[2] = k
         /\ \A j \in ProducersOf(id) : j < u[1]
         /\ k = "flow" =>
              http[u[1]].op \in {"import_bigquery_dataset", "create_wrangled_dataset"}
    /\ (k = "flow" /\ Requests("create_wrangled_dataset") # {}) =>
         Cardinality(Uses(id)) = 2

\* a whole pipeline and job run: the flow id went out twice, the others once
C11_Witness ==
  /\ \E id \in Created("flow") : Cardinality(Uses(id)) = 2
  /\ \E id \in Created("connection") : Cardinality(Uses(id)) = 1
  /\ \E id \in Created("importedDataset") : Cardinality(Uses(id)) = 1
  /\ \E id \in Created("wrangledDataset") : Cardinality(Uses(id)) = 1
  /\ \E id \in Created("job") : Cardinality(Uses(id)) = 1

WarehouseCalls == {"bq.get_dataset", "bq.create_dataset", "bq.query", "bq.list_datasets"}

\* the client handle as the trace has seen it
ClientUse ==
  /\ \A i \in DOMAIN invoked :
       /\ invoked[i].op = "authenticate_with_gcp" => invoked[i].client = None
       /\ invoked[i].op \in WarehouseCalls => invoked[i].client # None
       /\ \A j \in DOMAIN invoked :
            (i < j /\ invoked[i].client # None) => invoked[j].client = invoked[i].client
  /\ BIG_QUERY_CLIENT # None =>
       /\ Invoked("authenticate_with_gcp")
       /\ \A i \in DOMAIN invoked : invoked[i].client \in {None, BIG_QUERY_CLIENT}

\* C12: BIG_QUERY_CLIENT is written once, on authentication, and only read
\* afterwards: in a run of either script it goes from None to a client at
\* most once, is never assigned again, and no warehouse call is issued
\* while it is None.
C12_ClientWrittenOnce ==
  /\ []ClientUse
  /\ [][BIG_QUERY_CLIENT # None => BIG_QUERY_CLIENT' = BIG_QUERY_CLIENT]_vars

\* the handle was written by the first authentication and then used
C12_Witness ==
  /\ BIG_QUERY_CLIENT = "client"
  /\ Calls("authenticate_with_gcp") = 1
  /\ invoked[1].client = None
  /\ \E i \in DOMAIN invoked : invoked[i].op \in WarehouseCalls

JobEnded == pc \in {"job_returned", "job_raised"}

\* C13: run_dataprep_job issues no HTTP request when the token or the
\* wrangled dataset id is missing; check_job_status is invoked only after
\* the launch request returned 201, and once; and the job id handed back
\* does not depend on the status poll (a failed poll still returns it).
C13_JobIdIndependentOfPoll ==
  /\ \A i \in Requests("run_dataprep_job") :
       Truthy(http[i].auth_token) /\ Truthy(http[i].wrangledDataset)
  /\ \A i \in Requests("check_job_status") :
       /\ i > 1
       /\ http[i - 1].op = "run_dataprep_job"
       /\ ~http[i - 1].response.error
       /\ http[i - 1].response.status_code = 201
  /\ Calls("check_job_status") <= 1
  /\ Calls("check_job_status") = Cardinality(Requests("check_job_status"))
  /\ \A i \in Requests("run_dataprep_job") :
       (JobEnded /\ ~http[i].response.error /\ http[i].response.json
          /\ http[i].response.status_code = 201)
       => /\ Calls("check_job_status") = 1
          /\ pc = "job_returned"
          /\ job_id = http[i].response.field

\* the part of C13 that holds whenever the status request is answered at
\* all: whatever the status code, the job id of the launch comes back
C13_AnsweredPollKeepsJobId ==
  \A i \in Requests("check_job_status") :
    (~http[i].response.error
       /\ (http[i].response.json \/ http[i].response.status_code # 200))
    => (pc = "job_returned" /\ job_id = http[i - 1].response.field)

====
